---------------------------- MODULE Spec2Model ----------------------------
(***************************************************************************)
(* A model of the news scraper: main() in src/src/main.py driving          *)
(* NewsScraper in src/src/news_scraper.py, with the configuration loader   *)
(* of src/src/utils.py.                                                    *)
(*                                                                         *)
(* Strings are sequences of one-character strings, so that the regular     *)
(* expressions, str.lower, str.count and re.sub are computed character by  *)
(* character.  The browser, the clock, the network and the file system are *)
(* the environment: every call into them is a nondeterministic choice      *)
(* among the outcomes the call can have.                                   *)
(***************************************************************************)
EXTENDS Integers, Sequences, FiniteSets, TLC

VARIABLES
    pc,             \* position of main() / of the text pipeline
    category,       \* self.category
    search_phrase,  \* self.search_phrase
    clock,          \* datetime.utcnow(), in seconds since construction began
    output_dir,     \* self.output_dir: <<category prefix, timestamp>>
    attempt,        \* filter_news_by_category: loop variable `attempt`
    attemptLog,     \* history: how each attempt of the current call ended
    screenshots,    \* attempt numbers tagged on the screenshots captured
    raised,         \* number of ValueError raised by filter_news_by_category
    error,          \* the unhandled exception that ended main(), or "none"
    found,          \* scroll_and_load: len(articles) after the latest query
    previous_count, \* scroll_and_load: previous_count
    queryLog,       \* history: the counts the queries returned, in order
    articles,       \* extract_news_data: articles (element ids, page order)
    idx,            \* extract_news_data: position of the for loop (1-based)
    outcomes,       \* history: what happened to each article processed
    news_data,      \* extract_news_data: news_data
    excel_file,     \* the .xlsx written, <<[name, rows]>>, or NoFile
    log_file,       \* the scrape log written, <<[name, entries]>>, or NoFile
    work_item,      \* text pipeline: the work item read by get_config
    in_title,       \* text pipeline: a title
    in_description, \* text pipeline: a description
    money_out,      \* text pipeline: result of check_for_money
    count_out       \* text pipeline: result of search_phrase_count

vars == <<pc, category, search_phrase, clock, output_dir, attempt, attemptLog,
          screenshots, raised, error, found, previous_count, queryLog,
          articles, idx, outcomes, news_data, excel_file, log_file,
          work_item, in_title, in_description, money_out, count_out>>

runVars == <<category, search_phrase, clock, output_dir, attempt, attemptLog,
             screenshots, raised, error, found, previous_count, queryLog,
             articles, idx, outcomes, news_data, excel_file, log_file>>

textVars == <<work_item, in_title, in_description, money_out, count_out>>

-----------------------------------------------------------------------------
(* Bounds of the model *)

\* the page never shows more than this many stream items
MaxArticles == 21
\* scroll/query iterations recorded in queryLog
MaxQueries == 3
\* per-article failures the environment injects in one run
MaxFaults == 1
\* seconds the clock may advance during one run
MaxClock == 1
\* fragments a generated title is made of
MaxFrags == 3

(* Program constants *)

\* retry_attempts = 3
RetryAttempts == 3
\* while len(articles) < 20 ... return articles[:20]
TargetCount == 20
\* title[:15]
TitlePrefixLen == 15

Min(a, b) == IF a < b THEN a ELSE b

-----------------------------------------------------------------------------
(* Strings *)

UpperLetters == <<"A","B","C","D","E","F","G","H","I","J","K","L","M",
                  "N","O","P","Q","R","S","T","U","V","W","X","Y","Z">>
LowerLetters == <<"a","b","c","d","e","f","g","h","i","j","k","l","m",
                  "n","o","p","q","r","s","t","u","v","w","x","y","z">>
Digits == {"0","1","2","3","4","5","6","7","8","9"}

\* the lower-case letter of each upper-case letter, and the reverse
LowerOf == [c \in {UpperLetters[i] : i \in 1..26} |->
               LowerLetters[CHOOSE i \in 1..26 : UpperLetters[i] = c]]
UpperOf == [c \in {LowerLetters[i] : i \in 1..26} |->
               UpperLetters[CHOOSE i \in 1..26 : LowerLetters[i] = c]]

\* str.lower() on one character
LowerChar(c) == IF c \in DOMAIN LowerOf THEN LowerOf[c] ELSE c

\* str.upper() on one character
UpperChar(c) == IF c \in DOMAIN UpperOf THEN UpperOf[c] ELSE c

\* str.lower()
Lower(s) == [i \in 1..Len(s) |-> LowerChar(s[i])]

\* str.upper()
Upper(s) == [i \in 1..Len(s) |-> UpperChar(s[i])]

\* regex \d
IsDigit(c) == c \in Digits

\* regex \s
IsSpace(c) == c \in {" ", "\t", "\n"}

\* regex \w
IsWordChar(c) == IsDigit(c) \/ c = "_" \/ c \in DOMAIN LowerOf \/ c \in DOMAIN UpperOf

\* the literal w occurs in s starting at position k
HasAt(s, k, w) ==
    /\ k >= 1
    /\ k + Len(w) - 1 <= Len(s)
    /\ \A m \in 1..Len(w) : s[k + m - 1] = w[m]

\* re.search(r"\$\d[\d,.]*", s): the trailing [\d,.]* matches the empty string
DollarAmount(s) ==
    \E i \in 1..Len(s) :
        /\ s[i] = "$"
        /\ i + 1 <= Len(s)
        /\ IsDigit(s[i + 1])
        /\ \E e \in (i + 1)..Len(s) :
               \A m \in (i + 2)..e : IsDigit(s[m]) \/ s[m] \in {",", "."}

\* the alternatives of (dollars|USD)
MoneyWords == { <<"d","o","l","l","a","r","s">>, <<"U","S","D">> }

\* a match of \d+\s*(w1|w2|...) in s: digits at i..j, whitespace at j+1..k-1,
\* one of the words at k
NumberThenWord(s, words) ==
    \E k \in 2..Len(s) :
        /\ \E w \in words : HasAt(s, k, w)
        /\ \E j \in 1..(k - 1) :
             /\ \A m \in (j + 1)..(k - 1) : IsSpace(s[m])
             /\ \E i \in 1..j : \A m \in i..j : IsDigit(s[m])

\* re.search(r"\d+\s*(dollars|USD)", s): no flags, so the words match as written
NumberWord(s) == NumberThenWord(s, MoneyWords)

\* one pattern of money_patterns, searched in one string
SearchPattern(p, s) == IF p = 1 THEN DollarAmount(s) ELSE NumberWord(s)

\* NewsScraper.check_for_money
check_for_money(title, description) ==
    \E p \in 1..2 : SearchPattern(p, title) \/ SearchPattern(p, description)

\* str.count(sub) from position k: non-overlapping occurrences, scanning left
\* to right; the empty string occurs between any two characters and at both ends
RECURSIVE CountFrom(_, _, _)
CountFrom(s, sub, k) ==
    IF sub = <<>> THEN Len(s) - k + 2
    ELSE IF k + Len(sub) - 1 > Len(s) THEN 0
    ELSE IF HasAt(s, k, sub) THEN 1 + CountFrom(s, sub, k + Len(sub))
    ELSE CountFrom(s, sub, k + 1)

\* str.count(sub)
StrCount(s, sub) == CountFrom(s, sub, 1)

\* NewsScraper.search_phrase_count
search_phrase_count(phrase, title, description) ==
    StrCount(Lower(title), Lower(phrase)) + StrCount(Lower(description), Lower(phrase))

\* s[:n]
Prefix(s, n) == SubSeq(s, 1, Min(n, Len(s)))

\* re.sub(r'\W+', '', s)
StripNonWord(s) == SelectSeq(s, IsWordChar)

\* str.replace(" ", "_")
SpacesToUnderscores(s) == [i \in 1..Len(s) |-> IF s[i] = " " THEN "_" ELSE s[i]]

\* self.category.upper().replace(" ", "_")
CategoryPrefix(cat) == SpacesToUnderscores(Upper(cat))

-----------------------------------------------------------------------------
(* The page and the configuration *)

\* no file written, no element found, no src attribute, no result yet
NoFile == <<>>
NoElement == <<>>
NoUrl == <<>>
Unset == <<>>

\* a file name: the category prefix, the stem, the timestamp, the extension
FileName(prefix, stem, ts, ext) == [prefix |-> prefix, stem |-> stem, ts |-> ts, ext |-> ext]

\* "placeholder.png": a name that carries no category and no timestamp
Placeholder ==
    FileName(<<>>, <<"p","l","a","c","e","h","o","l","d","e","r">>, -1, "png")

\* "No description available"
NoDescription == <<"N","o"," ","d","e","s","c","r","i","p","t","i","o","n",
                   " ","a","v","a","i","l","a","b","l","e">>

\* the category of the work item: none, or "Top News"
Categories == { <<>>, <<"T","o","p"," ","N","e","w","s">> }

\* the search phrase of the work item in a run of main()
DefaultPhrase == <<"o","i","l">>

\* the text of the h3.stream-item-title of stream item e
TitleOf(e) ==
    CASE e % 3 = 0 -> <<"O","i","l"," ","a","t"," ","$","5","!">>
      [] e % 3 = 1 -> <<"N","o"," ","n","e","w","s">>
      [] OTHER     -> <<"5"," ","D","o","l","l","a","r","s"," ","o","f"," ","o","i","l","?">>

\* the text of the stream-item-summary of stream item e
DescOf(e) ==
    IF e % 2 = 0 THEN <<"O","I","L"," ","o","i","l">> ELSE <<"2","0"," ","U","S","D">>

\* the src attribute of the img of stream item e
ImageUrlOf(e) == <<"img", e>>

\* the stream items a query returns when the page shows n of them, in document order
Elements(n) == [i \in 1..n |-> i]

-----------------------------------------------------------------------------
(* NewsScraper.__init__ and create_output_directory *)

\* create_output_directory: f"{category_prefix}_{timestamp}"
create_output_directory(cat, now) == FileName(CategoryPrefix(cat), <<>>, now, "")

RunDefaults ==
    /\ clock = 0
    /\ attempt = 0
    /\ attemptLog = <<>>
    /\ screenshots = <<>>
    /\ raised = 0
    /\ error = "none"
    /\ found = 0
    /\ previous_count = 0
    /\ queryLog = <<>>
    /\ articles = <<>>
    /\ idx = 0
    /\ outcomes = <<>>
    /\ news_data = <<>>
    /\ excel_file = NoFile
    /\ log_file = NoFile

TextDefaults ==
    /\ work_item = [search_phrase |-> DefaultPhrase]
    /\ in_title = <<>>
    /\ in_description = <<>>
    /\ money_out = Unset
    /\ count_out = Unset

\* main(): the state once get_config and NewsScraper(...) have returned
Init ==
    /\ pc = "open_site"
    /\ category \in Categories
    /\ search_phrase = DefaultPhrase
    /\ output_dir = create_output_directory(category, 0)
    /\ RunDefaults
    /\ TextDefaults

-----------------------------------------------------------------------------
(* The clock *)

\* a second passes while main() runs
Tick ==
    /\ pc \in {"open_site", "filter", "scroll", "scrolled", "extract",
               "save_excel", "save_log", "close"}
    /\ clock < MaxClock
    /\ clock' = clock + 1
    /\ UNCHANGED <<pc, category, search_phrase, output_dir, attempt, attemptLog,
                   screenshots, raised, error, found, previous_count, queryLog,
                   articles, idx, outcomes, news_data, excel_file, log_file>>
    /\ UNCHANGED textVars

-----------------------------------------------------------------------------
(* NewsScraper.open_site *)

open_site ==
    /\ pc = "open_site"
    /\ pc' = "filter"
    /\ UNCHANGED runVars
    /\ UNCHANGED textVars

-----------------------------------------------------------------------------
(* NewsScraper.filter_news_by_category *)

\* how one attempt can end: the first wait times out, the control is not
\* visible after the wait, the click raises, the wait for h3 times out, or
\* the category is applied
AttemptOutcomes == {"wait_timeout", "not_visible", "click_error", "h3_timeout", "applied"}

\* the outcomes that raise inside the try block
AttemptRaises(o) == o \in {"wait_timeout", "click_error", "h3_timeout"}

\* (a fault of LastAttempt: the except block of every attempt screenshots and raises)
LastAttempt_every(a) == TRUE

\* if attempt == retry_attempts - 1
LastAttempt(a) == a = RetryAttempts - 1

\* if self.category: is false, so the method does nothing
filter_skip ==
    /\ pc = "filter"
    /\ category = <<>>
    /\ pc' = "scroll"
    /\ UNCHANGED runVars
    /\ UNCHANGED textVars

\* one iteration of for attempt in range(retry_attempts)
filter_attempt ==
    /\ pc = "filter"
    /\ category # <<>>
    /\ attempt < RetryAttempts
    /\ \E o \in AttemptOutcomes :
         IF o = "applied"
         THEN \* return: the locals of the call are gone
              /\ pc' = "scroll"
              /\ attempt' = 0
              /\ attemptLog' = <<>>
              /\ UNCHANGED <<screenshots, raised, error>>
         ELSE /\ attemptLog' = Append(attemptLog, o)
              /\ IF AttemptRaises(o) /\ LastAttempt(attempt)
                 THEN \* except: screenshot, then raise ValueError("... not found ...")
                      /\ screenshots' = Append(screenshots, attempt + 1)
                      /\ raised' = raised + 1
                      /\ error' = "category not found"
                      /\ pc' = "crashed"
                      /\ UNCHANGED attempt
                 ELSE IF attempt + 1 < RetryAttempts
                 THEN \* next iteration
                      /\ attempt' = attempt + 1
                      /\ UNCHANGED <<pc, screenshots, raised, error>>
                 ELSE \* the loop is over: raise ValueError("Failed to locate ...")
                      /\ raised' = raised + 1
                      /\ error' = "category not found"
                      /\ pc' = "crashed"
                      /\ UNCHANGED <<attempt, screenshots>>
    /\ UNCHANGED <<category, search_phrase, clock, output_dir, found, previous_count,
                   queryLog, articles, idx, outcomes, news_data, excel_file, log_file>>
    /\ UNCHANGED textVars

-----------------------------------------------------------------------------
(* NewsScraper.scroll_and_load *)

\* (a fault of NoProgress: the loop never notices that the count stopped changing)
NoProgress_never(n, prev) == FALSE

\* if len(articles) == previous_count: break
NoProgress(n, prev) == n = prev

\* while len(articles) < 20
BelowTarget(n) == n < TargetCount

\* (a fault of FirstTwenty: every element is returned)
FirstTwenty_all(s) == s

\* return articles[:20]
FirstTwenty(s) == Prefix(s, TargetCount)

\* one iteration of the while loop: scroll, sleep, query, compare; the query
\* returns n stream items.  When the loop ends the method returns.
scroll_iteration(n) ==
    /\ pc = "scroll"
    /\ found' = n
    /\ IF NoProgress(n, previous_count)
       THEN \* break
            /\ pc' = "scrolled"
            /\ articles' = FirstTwenty(Elements(n))
            /\ UNCHANGED previous_count
       ELSE /\ previous_count' = n
            /\ IF BelowTarget(n)
               THEN UNCHANGED <<pc, articles>>
               ELSE /\ pc' = "scrolled"
                    /\ articles' = FirstTwenty(Elements(n))
    /\ UNCHANGED <<category, search_phrase, clock, output_dir, attempt, attemptLog,
                   screenshots, raised, error, idx, outcomes, news_data,
                   excel_file, log_file>>
    /\ UNCHANGED textVars

\* an iteration whose query is recorded in queryLog
scroll_and_load ==
    /\ Len(queryLog) < MaxQueries
    /\ \E n \in 0..MaxArticles :
         /\ scroll_iteration(n)
         /\ queryLog' = Append(queryLog, n)

\* an iteration that is not recorded: the loop as the code runs it, however
\* many iterations it takes
scroll_and_load_unrecorded ==
    /\ \E n \in 0..MaxArticles : scroll_iteration(n)
    /\ UNCHANGED queryLog

-----------------------------------------------------------------------------
(* NewsScraper.extract_news_data, extract_image_url, download_image *)

\* what can happen to one article: every lookup succeeds; find_element of the
\* title raises; the wait for the description times out; an element has gone
\* stale when its text is read; the article has no img (or no src); the
\* download of the image fails
ArticleOutcomes == {"ok", "no_title", "desc_timeout", "stale", "no_image", "download_fail"}

\* article.find_element(By.CSS_SELECTOR, "h3.stream-item-title") returns
TitleFound(o) == o # "no_title"

\* an exception is raised inside the try block of the loop body
RaisesInTry(o) == o \in {"no_title", "desc_timeout", "stale"}

\* extract_image_url
extract_image_url(e, o) == IF o = "no_image" THEN NoUrl ELSE ImageUrlOf(e)

\* download_image: fetched tells whether urlretrieve succeeded
download_image(image_url, title, cat, now, fetched) ==
    IF image_url = NoUrl THEN Placeholder
    ELSE IF fetched
         THEN FileName(CategoryPrefix(cat), StripNonWord(Prefix(title, TitlePrefixLen)), now, "jpg")
         ELSE Placeholder

\* description_element.text if description_element else "No description available"
DescriptionText(description_element) ==
    IF description_element # NoElement THEN description_element[1] ELSE NoDescription

\* description_element.text if description_element else ""
DescriptionOrEmpty(description_element) ==
    IF description_element # NoElement THEN description_element[1] ELSE <<>>

\* the news_item dict built for stream item e
news_item(e, o, cat, phrase, now) ==
    LET title == TitleOf(e)
        description_element == <<DescOf(e)>>
    IN  [ elem |-> e,
          title |-> title,
          description |-> DescriptionText(description_element),
          date |-> now \div 86400,
          picture_filename |->
              download_image(extract_image_url(e, o), title, cat, now, o # "download_fail"),
          money_mentioned |->
              check_for_money(title, DescriptionOrEmpty(description_element)),
          search_phrase_count |->
              search_phrase_count(phrase, title, DescriptionOrEmpty(description_element)) ]

\* (a fault of NextArticle: an exception ends the loop)
NextArticle_abort(i, n, o) == IF RaisesInTry(o) THEN n + 1 ELSE i + 1

\* for article in articles: the loop goes on after the try/except
NextArticle(i, n, o) == i + 1

\* news_data.append(news_item), unless the try block raised before it
Extracted(data, item, o) == IF RaisesInTry(o) THEN data ELSE Append(data, item)

NumberOfFaults(log) == Cardinality({i \in 1..Len(log) : log[i] # "ok"})

\* articles = self.scroll_and_load() has returned; news_data = []
extract_begin ==
    /\ pc = "scrolled"
    /\ pc' = "extract"
    /\ idx' = 1
    /\ news_data' = <<>>
    /\ outcomes' = <<>>
    /\ previous_count' = 0
    /\ queryLog' = <<>>
    /\ UNCHANGED <<category, search_phrase, clock, output_dir, attempt, attemptLog,
                   screenshots, raised, error, found, articles, excel_file, log_file>>
    /\ UNCHANGED textVars

\* one iteration of for article in articles, with an outcome among kinds
extract_article(kinds) ==
    /\ pc = "extract"
    /\ idx <= Len(articles)
    /\ \E o \in kinds :
         /\ o # "ok" => NumberOfFaults(outcomes) < MaxFaults
         /\ outcomes' = Append(outcomes, o)
         /\ news_data' = Extracted(news_data,
                                   news_item(articles[idx], o, category, search_phrase, clock), o)
         /\ idx' = NextArticle(idx, Len(articles), o)
    /\ UNCHANGED <<pc, category, search_phrase, clock, output_dir, attempt, attemptLog,
                   screenshots, raised, error, found, previous_count, queryLog,
                   articles, excel_file, log_file>>
    /\ UNCHANGED textVars

\* the loop is over: return news_data; the locals of the call are gone
extract_return ==
    /\ pc = "extract"
    /\ idx > Len(articles)
    /\ pc' = "save_excel"
    /\ idx' = 0
    /\ outcomes' = <<>>
    /\ articles' = <<>>
    /\ UNCHANGED <<category, search_phrase, clock, output_dir, attempt, attemptLog,
                   screenshots, raised, error, found, previous_count, queryLog,
                   news_data, excel_file, log_file>>
    /\ UNCHANGED textVars

-----------------------------------------------------------------------------
(* NewsScraper.save_to_excel, save_scrape_log, close *)

\* save_to_excel up to df.to_excel(file_name): written tells whether it succeeded
save_to_excel ==
    /\ pc = "save_excel"
    /\ \E written \in BOOLEAN :
         IF written
         THEN /\ excel_file' = << [ name |-> FileName(CategoryPrefix(category),
                                                       <<"n","e","w","s","_","d","a","t","a">>,
                                                       clock, "xlsx"),
                                    rows |-> news_data ] >>
              /\ pc' = "save_log"
              /\ UNCHANGED error
         ELSE \* nothing catches the exception of to_excel
              /\ error' = "to_excel failed"
              /\ pc' = "crashed"
              /\ UNCHANGED excel_file
    /\ UNCHANGED <<category, search_phrase, clock, output_dir, attempt, attemptLog,
                   screenshots, raised, found, previous_count, queryLog, articles,
                   idx, outcomes, news_data, log_file>>
    /\ UNCHANGED textVars

\* save_scrape_log, called last by save_to_excel: written tells whether the
\* with open(...) block succeeded; its exception is caught and logged
save_scrape_log ==
    /\ pc = "save_log"
    /\ \E written \in BOOLEAN :
         log_file' = IF written
                     THEN << [ name |-> FileName(CategoryPrefix(category),
                                                 <<"s","c","r","a","p","e","_","l","o","g">>,
                                                 clock, "txt"),
                               entries |-> news_data ] >>
                     ELSE NoFile
    /\ pc' = "close"
    /\ UNCHANGED <<category, search_phrase, clock, output_dir, attempt, attemptLog,
                   screenshots, raised, error, found, previous_count, queryLog,
                   articles, idx, outcomes, news_data, excel_file>>
    /\ UNCHANGED textVars

\* scraper.close()
close ==
    /\ pc = "close"
    /\ pc' = "done"
    /\ UNCHANGED runVars
    /\ UNCHANGED textVars

-----------------------------------------------------------------------------
(* The run of main() *)

Next ==
    \/ open_site
    \/ filter_skip
    \/ filter_attempt
    \/ scroll_and_load_unrecorded
    \/ extract_begin
    \/ extract_article(ArticleOutcomes)
    \/ extract_return
    \/ save_to_excel
    \/ save_scrape_log
    \/ close

Spec == Init /\ [][Next]_vars

-----------------------------------------------------------------------------
(* The run of main() up to the return of scroll_and_load, every query of    *)
(* the loop recorded in queryLog                                            *)

NextScroll ==
    \/ open_site
    \/ filter_skip
    \/ filter_attempt
    \/ scroll_and_load

SpecScroll == Init /\ [][NextScroll]_vars

-----------------------------------------------------------------------------
(* The run of main() while the clock advances, every lookup succeeding *)

NextClock ==
    \/ Tick
    \/ open_site
    \/ filter_skip
    \/ filter_attempt
    \/ scroll_and_load_unrecorded
    \/ extract_begin
    \/ extract_article({"ok"})
    \/ extract_return
    \/ save_to_excel
    \/ save_scrape_log
    \/ close

SpecClock == Init /\ [][NextClock]_vars

-----------------------------------------------------------------------------
(* The run of main() on a page whose stream items are all well formed:      *)
(* every lookup and every download succeeds                                 *)

NextWellFormed ==
    \/ open_site
    \/ filter_skip
    \/ filter_attempt
    \/ scroll_and_load_unrecorded
    \/ extract_begin
    \/ extract_article({"ok"})
    \/ extract_return
    \/ save_to_excel
    \/ save_scrape_log
    \/ close

SpecWellFormed == Init /\ [][NextWellFormed]_vars

\* the same run under the scheduling of the code: main() is one thread that
\* takes its next step whenever it has one
SpecLive == Init /\ [][NextWellFormed]_vars /\ WF_vars(NextWellFormed)

-----------------------------------------------------------------------------
(* The text pipeline: get_config, then search_phrase_count and              *)
(* check_for_money applied to a title and a description                     *)

Fragments ==
    { <<"$">>, <<"5">>, <<",">>, <<" ">>, <<"x">>,
      <<"d","o","l","l","a","r","s">>, <<"D","o","l","l","a","r","s">>,
      <<"U","S","D">>, <<"u","s","d">> }

\* the texts made of at most k fragments
RECURSIVE Texts(_)
Texts(k) ==
    IF k = 0 THEN { <<>> }
    ELSE LET T == Texts(k - 1) IN T \cup { f \o t : f \in Fragments, t \in T }

\* the search phrases a work item may hold
Phrases == { <<>>, <<"x">>, <<"U","S","D">> }

\* no output directory yet
NoDir == FileName(<<>>, <<>>, -1, "")

\* before main() calls get_config: the work item file holds any phrase
InitText ==
    /\ pc = "get_config"
    /\ category = <<"T","o","p"," ","N","e","w","s">>
    /\ search_phrase = <<>>
    /\ output_dir = NoDir
    /\ RunDefaults
    /\ work_item \in [search_phrase : Phrases]
    /\ in_title \in Texts(MaxFrags)
    /\ in_description \in Texts(1)
    /\ money_out = Unset
    /\ count_out = Unset

\* load_work_item: json.load returns the file's content as it is
load_work_item(item) == item

\* config = get_config(); NewsScraper(search_phrase=config["search_phrase"], ...)
get_config ==
    /\ pc = "get_config"
    /\ pc' = "constructed"
    /\ search_phrase' = load_work_item(work_item).search_phrase
    /\ output_dir' = create_output_directory(category, clock)
    /\ UNCHANGED <<category, clock, attempt, attemptLog, screenshots, raised, error,
                   found, previous_count, queryLog, articles, idx, outcomes,
                   news_data, excel_file, log_file>>
    /\ UNCHANGED textVars

\* self.search_phrase_count(title, description)
text_count ==
    /\ pc = "constructed"
    /\ count_out' = << search_phrase_count(search_phrase, in_title, in_description) >>
    /\ pc' = "counted"
    /\ UNCHANGED runVars
    /\ UNCHANGED <<work_item, in_title, in_description, money_out>>

\* self.check_for_money(title, description)
text_money ==
    /\ pc = "counted"
    /\ money_out' = << check_for_money(in_title, in_description) >>
    /\ pc' = "classified"
    /\ UNCHANGED runVars
    /\ UNCHANGED <<work_item, in_title, in_description, count_out>>

NextText ==
    \/ get_config
    \/ text_count
    \/ text_money

SpecText == InitText /\ [][NextText]_vars

-----------------------------------------------------------------------------
(* Properties *)

\* C1: every article whose title was found and whose description wait timed
\* out has a record in news_data, with the description "No description
\* available"
C1_TimeoutKeepsRecord ==
    \A i \in 1..Len(outcomes) :
        outcomes[i] = "desc_timeout" =>
            \E r \in 1..Len(news_data) :
                /\ news_data[r].elem = articles[i]
                /\ news_data[r].description = NoDescription

StopsAt(i, before) ==
    \/ queryLog[i] >= 20
    \/ queryLog[i] = before

\* what scroll_and_load returns for the last query: its first min(20, count)
\* elements, in document order
ReturnsFirstOfLast ==
    LET last == queryLog[Len(queryLog)]
    IN  articles = [i \in 1..Min(20, last) |-> Elements(last)[i]]

\* C3 as stated: the loop stops exactly at the first query that returned at
\* least 20 elements or the same count as the query before it, and returns
\* the first min(20, count) elements of that query; {5, 12, 20} stops after 3
\* queries with 20 elements, {5, 9, 9} after 3 queries with 9
C3_StopsOnTargetOrRepeat ==
    pc \in {"scroll", "scrolled"} =>
        /\ \A i \in 1..Len(queryLog) :
             (i < Len(queryLog) \/ pc = "scroll") =>
                 ~ (queryLog[i] >= 20 \/ (i > 1 /\ queryLog[i] = queryLog[i - 1]))
        /\ pc = "scrolled" =>
             /\ Len(queryLog) >= 1
             /\ \/ queryLog[Len(queryLog)] >= 20
                \/ /\ Len(queryLog) >= 2
                   /\ queryLog[Len(queryLog)] = queryLog[Len(queryLog) - 1]
             /\ ReturnsFirstOfLast
        /\ queryLog = <<5, 12, 20>> => pc = "scrolled" /\ Len(articles) = 20
        /\ queryLog = <<5, 9, 9>> => pc = "scrolled" /\ Len(articles) = 9

\* C3 amended: the loop stops exactly at the first query that returned at
\* least 20 elements or the same count as the query before it, where the
\* count before the first query is 0 (a first query that finds nothing
\* stops the loop); it returns the first min(20, count) elements of that
\* query; {5, 12, 20} stops after 3 queries with 20 elements, {5, 9, 9}
\* after 3 queries with 9
C3_StopsOnTargetOrRepeatFromZero ==
    pc \in {"scroll", "scrolled"} =>
        /\ \A i \in 1..Len(queryLog) :
             (i < Len(queryLog) \/ pc = "scroll") =>
                 ~ StopsAt(i, IF i = 1 THEN 0 ELSE queryLog[i - 1])
        /\ pc = "scrolled" =>
             /\ Len(queryLog) >= 1
             /\ StopsAt(Len(queryLog),
                        IF Len(queryLog) = 1 THEN 0 ELSE queryLog[Len(queryLog) - 1])
             /\ ReturnsFirstOfLast
        /\ queryLog = <<5, 12, 20>> => pc = "scrolled" /\ Len(articles) = 20
        /\ queryLog = <<5, 9, 9>> => pc = "scrolled" /\ Len(articles) = 9

\* C3 witness: the queries returned 5, 9, 9 and the loop stopped with 9 elements
C3_StoppedByNoProgress ==
    /\ pc = "scrolled"
    /\ queryLog = <<5, 9, 9>>
    /\ articles = <<1, 2, 3, 4, 5, 6, 7, 8, 9>>

\* row i of the file holds the title of the i-th element of the page
RowsInPageOrder ==
    \A i \in 1..Len(excel_file[1].rows) :
        /\ i <= found
        /\ excel_file[1].rows[i].elem = Elements(found)[i]
        /\ excel_file[1].rows[i].title = TitleOf(Elements(found)[i])

\* C4 as stated: when the page presents N well-formed elements (as under
\* SpecWellFormed, found being N), the tabular file has N rows, row i holding
\* the title of the i-th element
C4_OneRowPerElement ==
    excel_file # NoFile =>
        /\ Len(excel_file[1].rows) = found
        /\ RowsInPageOrder

\* C4 amended: when the last query of scroll_and_load returns N well-formed
\* elements (as under SpecWellFormed, found being N) and the tabular file is
\* written, it has min(N, 20) rows, row i holding the title of the i-th
\* element
C4_OneRowPerElementUpToTwenty ==
    excel_file # NoFile =>
        /\ Len(excel_file[1].rows) = Min(found, 20)
        /\ RowsInPageOrder

\* C4 witness: a page of 21 well-formed elements, saved as 20 rows
C4_TwentyOneSavedAsTwenty ==
    /\ excel_file # NoFile
    /\ found = 21
    /\ Len(excel_file[1].rows) = 20
    /\ excel_file[1].rows[20].title = TitleOf(20)

\* C5: the run ends with an unhandled error only when the category filter
\* has used up its attempts; a log-file write failure leaves the tabular
\* file written and the run goes on to close()
C5_OnlyCategoryIsFatal ==
    /\ pc = "crashed" => error = "category not found"
    /\ (pc \in {"close", "done"} /\ log_file = NoFile) => excel_file # NoFile

\* C6: every artifact name of a run carries the timestamp of the output
\* directory: each downloaded image, the tabular file and the log file
C6_OneTimestamp ==
    /\ \A r \in 1..Len(news_data) :
         news_data[r].picture_filename # Placeholder =>
             news_data[r].picture_filename.ts = output_dir.ts
    /\ excel_file # NoFile => excel_file[1].name.ts = output_dir.ts
    /\ log_file # NoFile => log_file[1].name.ts = output_dir.ts

\* a '$' immediately followed by a digit, or a number, optional whitespace
\* and "dollars" or "USD" in any letter case
MentionsMoney(s) ==
    \/ \E i \in 1..(Len(s) - 1) : s[i] = "$" /\ IsDigit(s[i + 1])
    \/ NumberThenWord(Lower(s), {Lower(w) : w \in MoneyWords})

\* C7: check_for_money is true exactly when the title or the description has
\* a '$' amount or a number followed by "dollars"/"USD" in any letter case
C7_MoneyAnyCase ==
    money_out # Unset =>
        money_out[1] = (MentionsMoney(in_title) \/ MentionsMoney(in_description))

\* C8: no search phrase count is ever computed from an empty phrase
C8_NoCountOfEmptyPhrase ==
    count_out # Unset => search_phrase # <<>>

\* the positions in articles of the articles processed without an exception
KeptPositions ==
    SelectSeq([i \in 1..Len(outcomes) |-> i], LAMBDA i : ~ RaisesInTry(outcomes[i]))

C10_ScrollTerminates == (pc = "scroll") ~> (pc = "scrolled")

=============================================================================
